---- MODULE Spec2Model ----
(***************************************************************************)
(* A model of mls-chat (src/src/main.rs): the MlsChatApp state machine.    *)
(*                                                                         *)
(* One run of the program is main(): MlsChatApp::new, load_state, one      *)
(* command handler, and (inside the handler) save_state.  The state that   *)
(* survives between runs is the three files under mls_chat_data/, so the   *)
(* variables are those files; every action is one whole run of main.       *)
(*                                                                         *)
(* Strings built with format! are kept as tuples of their parts.  A v4     *)
(* UUID is modelled by the number of its draw: every draw is a new value.  *)
(* Where the program slices the text of a UUID (the group secret), the     *)
(* slice is the symbolic prefix of that draw's text.                       *)
(* ChatMessage.timestamp (Utc::now) is not modelled.                       *)
(***************************************************************************)
EXTENDS Integers, Sequences, FiniteSets, TLC

\* ------------------------------------------------------------------ bounds
\* UUIDs the generator may hand out in one behaviour.
MaxUuid == 12
\* The same for the longer behaviours of SpecLong, which reach a CreateGroup
\* on the name of a group that has gained a member.
MaxUuidLong == 14
\* Messages one group may hold.
MaxMsgs == 2
\* The same as MaxUuid for SpecRace, where two processes share the store.
MaxUuidRace == 8

\* ------------------------------------------------------------ input sets
Alice == "UserName::Alice"
Bob == "UserName::Bob"
UserName == {Alice, Bob}

GroupNames == {"team", "dev"}
Hi == <<"h", "i">>
Contents == {Hi, <<"a", " ", "b">>}
\* Message texts that differ only in a space against an underscore.
CodecContents == {<<"a", " ", "b">>, <<"a", "_", "b">>}

\* ------------------------------------------------------------ small types
\* Option<T>: None is the empty sequence, Some(x) the one-element sequence.
None == <<>>
Some(x) == <<x>>

\* HashMap::new()
EmptyMap == [k \in {} |-> {}]
\* HashMap::insert: the value under an existing key is replaced.
InsertIfAbsent(map, k, v) ==
    [x \in (DOMAIN map) \cup {k} |-> IF x \in DOMAIN map THEN map[x] ELSE v]
Insert(map, k, v) == [x \in (DOMAIN map) \cup {k} |-> IF x = k THEN v ELSE map[x]]
\* Vec::contains
Contains(vec, x) == \E i \in 1..Len(vec) : vec[i] = x

\* impl Display for UserName
to_string(user) == IF user = Alice THEN "Alice" ELSE "Bob"

\* Uuid::new_v4().to_string(), the n-th draw of the generator.
Uuid(n) == [uuid |-> n]
\* The first `len` bytes of a UUID's text.
Prefix(uuid, len) == [prefix_of |-> uuid, len |-> len]

\* content.replace(" ", "_")
replace(content) == [i \in 1..Len(content) |-> IF content[i] = " " THEN "_" ELSE content[i]]
\* group_secret[..16]: "group_secret_" is 13 bytes, then 3 bytes of the UUID.
slice16(secret) == <<secret[1], Prefix(secret[2], 16 - 13)>>

\* anyhow errors, named by their messages.
Ok == [ok |-> TRUE, err |-> "", notice |-> ""]
Notice(msg) == [ok |-> TRUE, err |-> "", notice |-> msg]
Err(msg) == [ok |-> FALSE, err |-> msg, notice |-> ""]
NoUserInitialized == "No user initialized"
UserNotInitialized == "User not initialized"
GroupNotFound == "Group not found"
MemberNotInitialized == "Member not initialized"
NotAMember == "User is not a member of group"
AlreadyInGroup == "Member is already in the group"

\* What a handler hands back: the application state it leaves, its Result,
\* whether it reached self.save_state(), how many UUIDs it drew, and what it
\* listed.
Outcome(app, result, saved, drawn, listed) ==
    [app |-> app, result |-> result, saved |-> saved, drawn |-> drawn, listed |-> listed]

\* ------------------------------------------------------------- handlers
\* MlsChatApp::new
new == [current_user |-> None, groups |-> EmptyMap, user_keys |-> EmptyMap]

init_user(app, user, n) ==
    LET key == [id |-> Uuid(n),
                public_key |-> <<"pub_key_", Uuid(n + 1)>>,
                private_key |-> <<"priv_key_", Uuid(n + 2)>>]
    IN Outcome([app EXCEPT !.user_keys = Insert(@, to_string(user), key),
                           !.current_user = Some(user)],
               Ok, TRUE, 3, <<>>)


\* Lines 161 and 165: the active identity, or the error create_group returns.
create_group_guard(app) ==
    IF app.current_user = None THEN Err(NoUserInitialized)
    ELSE IF to_string(app.current_user[1]) \notin DOMAIN app.user_keys
         THEN Err(UserNotInitialized)
         ELSE Ok

\* epoch: 1
InitialEpochZero == 1 - 1
InitialEpoch == 1

\* members: vec![user.to_string()]
initial_members_empty(user) == <<>>
initial_members(user) == <<to_string(user)>>

create_group(app, name, n) ==
    LET guard == create_group_guard(app) IN
    IF ~guard.ok THEN Outcome(app, guard, FALSE, 0, <<>>)
    ELSE
    LET user == app.current_user[1]
        group_id == Uuid(n)
        mls_group == [group_id |-> group_id,
                      epoch |-> InitialEpoch,
                      tree_hash |-> <<"tree_hash_", Uuid(n + 1)>>,
                      group_secret |-> <<"group_secret_", Uuid(n + 2)>>,
                      members |-> initial_members(user)]
        chat_group == [name |-> name,
                       group_id |-> group_id,
                       members |-> initial_members(user),
                       messages |-> <<>>,
                       mls_group |-> mls_group]
    IN Outcome([app EXCEPT !.groups = Insert(@, name, chat_group)], Ok, TRUE, 3, <<>>)

\* group.mls_group.epoch += 1.  The epoch is a u32; a group gains at most one
\* member per UserName, so the addition never comes near its width.
next_epoch_by_two(epoch) == epoch + 2
next_epoch(epoch) == epoch + 1

\* group.mls_group.group_secret = format!("group_secret_{}", Uuid::new_v4())
rotated_secret_kept(old, n) == old
rotated_secret(old, n) == <<"group_secret_", Uuid(n)>>

\* group.members.contains(&member.to_string())
already_member_unchecked(group, member) == FALSE
already_member(group, member) == Contains(group.members, to_string(member))

\* self.user_keys.contains_key(&member.to_string())
member_has_keys_unchecked(app, member) == TRUE
member_has_keys(app, member) == to_string(member) \in DOMAIN app.user_keys

\* let user = self.current_user.context("No user initialized")?
add_member_has_user_unchecked(app) == TRUE
add_member_has_user(app) == app.current_user # None

\* group.mls_group.members = group.members.clone()
synced_members_stale(mls_members, members) == mls_members
synced_members(mls_members, members) == members

add_member(app, group_name, member, n) ==
    IF ~add_member_has_user(app) THEN Outcome(app, Err(NoUserInitialized), FALSE, 0, <<>>)
    ELSE IF group_name \notin DOMAIN app.groups
    THEN Outcome(app, Err(GroupNotFound), FALSE, 0, <<>>)
    ELSE
    LET group == app.groups[group_name] IN
    IF already_member(group, member)
    THEN Outcome(app, Notice(AlreadyInGroup), FALSE, 0, <<>>)
    ELSE IF ~member_has_keys(app, member)
    THEN Outcome(app, Err(MemberNotInitialized), FALSE, 0, <<>>)
    ELSE
    LET members == Append(group.members, to_string(member))
        updated == [group EXCEPT
                      !.mls_group.epoch = next_epoch(@),
                      !.mls_group.group_secret = rotated_secret(@, n),
                      !.mls_group.tree_hash = <<"tree_hash_", Uuid(n + 1)>>,
                      !.members = members,
                      !.mls_group.members = synced_members(@, members)]
    IN Outcome([app EXCEPT !.groups[group_name] = updated], Ok, TRUE, 2, <<>>)

\* group.members.contains(&_user.to_string())
sender_is_member_unchecked(group, user) == TRUE
sender_is_member(group, user) == Contains(group.members, to_string(user))

\* epoch: group.mls_group.epoch
stamped_epoch_initial(group) == InitialEpoch
stamped_epoch(group) == group.mls_group.epoch

\* format!("encrypted_{}_{}", group_secret[..16], content.replace(" ", "_"))
encrypt(group_secret, content) ==
    <<"encrypted_", slice16(group_secret), "_", replace(content)>>

\* group.messages.push(chat_message)
push_message_front(messages, chat_message) == <<chat_message>> \o messages
push_message(messages, chat_message) == Append(messages, chat_message)

send_message(app, group_name, content, n) ==
    IF app.current_user = None THEN Outcome(app, Err(NoUserInitialized), FALSE, 0, <<>>)
    ELSE IF group_name \notin DOMAIN app.groups
    THEN Outcome(app, Err(GroupNotFound), FALSE, 0, <<>>)
    ELSE
    LET user == app.current_user[1]
        group == app.groups[group_name] IN
    IF ~sender_is_member(group, user)
    THEN Outcome(app, Err(NotAMember), FALSE, 0, <<>>)
    ELSE
    LET encrypted_content == encrypt(group.mls_group.group_secret, content)
        chat_message == [id |-> Uuid(n),
                         sender |-> to_string(user),
                         content |-> content,
                         encrypted_content |-> encrypted_content,
                         group_id |-> group.group_id,
                         epoch |-> stamped_epoch(group)]
    IN Outcome([app EXCEPT !.groups[group_name].messages = push_message(@, chat_message)],
               Ok, TRUE, 1, <<>>)

\* What list_messages prints for one message.
listed_line(message) ==
    [sender |-> message.sender, epoch |-> message.epoch,
     content |-> message.content, encrypted |-> message.encrypted_content]

list_messages(app, group_name) ==
    IF group_name \notin DOMAIN app.groups
    THEN Outcome(app, Err(GroupNotFound), FALSE, 0, <<>>)
    ELSE
    LET messages == app.groups[group_name].messages
    IN Outcome(app, Ok, FALSE, 0, [i \in 1..Len(messages) |-> listed_line(messages[i])])

show_group_info(app, group_name) ==
    IF group_name \notin DOMAIN app.groups
    THEN Outcome(app, Err(GroupNotFound), FALSE, 0, <<>>)
    ELSE Outcome(app, Ok, FALSE, 0, <<>>)

\* ---------------------------------------------------------- persistence
\* A file is absent (the empty sequence) or holds one JSON text.  A JSON
\* object written from a HashMap is the set of its (key, value) members; a
\* struct is written and read field by field (derive(Serialize, Deserialize)).
\* serde writes a UserName as its variant name and reads it back.
user_to_json(user) == to_string(user)
user_from_json(text) == IF text = "Alice" THEN Alice ELSE Bob

key_to_json(key) ==
    [id |-> key.id, public_key |-> key.public_key, private_key |-> key.private_key]
key_from_json(json) ==
    [id |-> json.id, public_key |-> json.public_key, private_key |-> json.private_key]

mls_group_to_json(mls) ==
    [group_id |-> mls.group_id, epoch |-> mls.epoch, tree_hash |-> mls.tree_hash,
     group_secret |-> mls.group_secret, members |-> mls.members]
mls_group_from_json(json) ==
    [group_id |-> json.group_id, epoch |-> json.epoch, tree_hash |-> json.tree_hash,
     group_secret |-> json.group_secret, members |-> json.members]

message_to_json(message) ==
    [id |-> message.id, sender |-> message.sender, content |-> message.content,
     encrypted_content |-> message.encrypted_content,
     group_id |-> message.group_id, epoch |-> message.epoch]
message_from_json(json) ==
    [id |-> json.id, sender |-> json.sender, content |-> json.content,
     encrypted_content |-> json.encrypted_content,
     group_id |-> json.group_id, epoch |-> json.epoch]

group_to_json(group) ==
    [name |-> group.name, group_id |-> group.group_id, members |-> group.members,
     messages |-> [i \in 1..Len(group.messages) |-> message_to_json(group.messages[i])],
     mls_group |-> mls_group_to_json(group.mls_group)]
group_from_json(json) ==
    [name |-> json.name, group_id |-> json.group_id, members |-> json.members,
     messages |-> [i \in 1..Len(json.messages) |-> message_from_json(json.messages[i])],
     mls_group |-> mls_group_from_json(json.mls_group)]

\* serde_json::to_string_pretty(&self.groups), serde_json::from_str(&data)
groups_to_json(groups) == {<<name, group_to_json(groups[name])>> : name \in DOMAIN groups}
groups_from_json(json) ==
    [name \in {member[1] : member \in json} |->
        group_from_json((CHOOSE member \in json : member[1] = name)[2])]

\* serde_json::to_string_pretty(&self.user_keys), serde_json::from_str(&data)
keys_to_json(keys) == {<<handle, key_to_json(keys[handle])>> : handle \in DOMAIN keys}
keys_from_json(json) ==
    [handle \in {member[1] : member \in json} |->
        key_from_json((CHOOSE member \in json : member[1] = handle)[2])]

\* The three files after save_state: current_user.json is written only for
\* Some(user).
save_state_merging(app, files) ==
    [app_state |-> <<groups_to_json(app.groups) \cup
                     {member \in (IF files.app_state # <<>> THEN files.app_state[1] ELSE {}) :
                         member[1] \notin DOMAIN app.groups}>>,
     user_keys |-> <<keys_to_json(app.user_keys) \cup
                     {member \in (IF files.user_keys # <<>> THEN files.user_keys[1] ELSE {}) :
                         member[1] \notin DOMAIN app.user_keys}>>,
     current_user |-> IF app.current_user # None
                      THEN <<user_to_json(app.current_user[1])>>
                      ELSE files.current_user]
save_state_without_keys(app, files) ==
    [app_state |-> <<groups_to_json(app.groups)>>,
     user_keys |-> files.user_keys,
     current_user |-> IF app.current_user # None
                      THEN <<user_to_json(app.current_user[1])>>
                      ELSE files.current_user]
save_state(app, files) ==
    [app_state |-> <<groups_to_json(app.groups)>>,
     user_keys |-> <<keys_to_json(app.user_keys)>>,
     current_user |-> IF app.current_user # None
                      THEN <<user_to_json(app.current_user[1])>>
                      ELSE files.current_user]

\* A file that does not exist leaves the field as new() set it.
load_state(app, files) ==
    [groups |-> IF files.app_state # <<>>
                THEN groups_from_json(files.app_state[1]) ELSE app.groups,
     user_keys |-> IF files.user_keys # <<>>
                   THEN keys_from_json(files.user_keys[1]) ELSE app.user_keys,
     current_user |-> IF files.current_user # <<>>
                      THEN Some(user_from_json(files.current_user[1]))
                      ELSE app.current_user]

\* ---------------------------------------------------------------- state
VARIABLES
    files,        \* mls_chat_data/: app_state.json, user_keys.json, current_user.json
    uuids,        \* how many UUIDs Uuid::new_v4 has handed out
    last,         \* the last command run, its Result and what it listed
    adds,         \* per group name: AddMember calls that added a member since the group was created
    created_ids,  \* every group_id a stored group ever had
    observed,     \* every (name, group_id, epoch, group_secret, tree_hash, members) a stored group ever had
    creator,      \* per group name: the active identity when the stored group was created
    memory,       \* the application state the last run held when it ended
    scenA,        \* how far the run so far follows ScriptA (-1: it left it)
    scenB,        \* the same for ScriptB
    procs,        \* per process of SpecRace: where it is in main and what it holds
    replaced      \* SpecRace: what the files held before the last save replaced them

vars == <<files, uuids, last, adds, created_ids, observed, creator, memory, scenA, scenB, procs, replaced>>

\* The application state main works on after new() and load_state().
App == load_state(new, files)

Cmd(cmd, group, user, content) == [cmd |-> cmd, group |-> group, user |-> user, content |-> content]

\* The command sequences of Scenario A, as written and with Bob initialised first.
ScriptA == << Cmd("Init", "", Alice, <<>>),
              Cmd("CreateGroup", "team", "", <<>>),
              Cmd("AddMember", "team", Bob, <<>>),
              Cmd("Send", "team", "", Hi),
              Cmd("List", "team", "", <<>>) >>
ScriptB == <<Cmd("Init", "", Bob, <<>>)>> \o ScriptA

Follow(scen, script, c) ==
    IF scen >= 0 /\ scen < Len(script) /\ script[scen + 1] = c THEN scen + 1 ELSE -1

\* Two invocations of the binary on the same mls_chat_data directory.
Procs == {"p", "q"}
\* main before load_state, and after it.
Started == [pc |-> "start", app |-> new]
Loaded(app) == [pc |-> "loaded", app |-> app]

Observation(g) ==
    [name |-> g.name, group_id |-> g.group_id, epoch |-> g.mls_group.epoch,
     secret |-> g.mls_group.group_secret, tree_hash |-> g.mls_group.tree_hash,
     members |-> g.members]

StoredGroups(app) == {app.groups[g] : g \in DOMAIN app.groups}

\* main: the handler has run on App; what the run leaves behind.  budget
\* caps the UUIDs drawn so far.
Finish(c, out, budget) ==
    /\ uuids + out.drawn <= budget
    /\ files' = IF out.saved THEN save_state(out.app, files) ELSE files
    /\ uuids' = uuids + out.drawn
    /\ last' = [cmd |-> c.cmd, group |-> c.group, user |-> c.user,
                result |-> out.result, listed |-> out.listed]
    /\ adds' = IF c.cmd = "CreateGroup" /\ out.result.ok
               THEN [adds EXCEPT ![c.group] = 0]
               ELSE IF c.cmd = "AddMember" /\ out.result.ok /\ out.result.notice = ""
               THEN [adds EXCEPT ![c.group] = @ + 1]
               ELSE adds
    /\ created_ids' = created_ids \cup {g.group_id : g \in StoredGroups(out.app)}
    /\ observed' = observed \cup {Observation(g) : g \in StoredGroups(out.app)}
    /\ creator' = IF c.cmd = "CreateGroup" /\ out.result.ok
                  THEN [creator EXCEPT ![c.group] = out.app.current_user]
                  ELSE creator
    /\ memory' = out.app
    /\ scenA' = Follow(scenA, ScriptA, c)
    /\ scenB' = Follow(scenB, ScriptB, c)

Init ==
    /\ files = [app_state |-> <<>>, user_keys |-> <<>>, current_user |-> <<>>]
    /\ uuids = 0
    /\ last = [cmd |-> "none", group |-> "", user |-> "", result |-> Ok, listed |-> <<>>]
    /\ adds = [g \in GroupNames |-> 0]
    /\ created_ids = {}
    /\ observed = {}
    /\ creator = [g \in GroupNames |-> None]
    /\ memory = new
    /\ scenA = 0
    /\ scenB = 0
    /\ procs = [p \in Procs |-> Started]
    /\ replaced = new

\* ------------------------------------------------------------- commands
RunInit(user, budget) ==
    /\ Finish(Cmd("Init", "", user, <<>>), init_user(App, user, uuids + 1), budget)
    /\ UNCHANGED <<procs, replaced>>

RunCreateGroup(name, budget) ==
    /\ Finish(Cmd("CreateGroup", name, "", <<>>), create_group(App, name, uuids + 1), budget)
    /\ UNCHANGED <<procs, replaced>>

RunAddMember(group, member, budget) ==
    /\ Finish(Cmd("AddMember", group, member, <<>>),
              add_member(App, group, member, uuids + 1), budget)
    /\ UNCHANGED <<procs, replaced>>

RunSend(group, content, budget) ==
    /\ group \in DOMAIN App.groups => Len(App.groups[group].messages) < MaxMsgs
    /\ Finish(Cmd("Send", group, "", content),
              send_message(App, group, content, uuids + 1), budget)
    /\ UNCHANGED <<procs, replaced>>

RunList(group, budget) ==
    /\ Finish(Cmd("List", group, "", <<>>), list_messages(App, group), budget)
    /\ UNCHANGED <<procs, replaced>>

RunInfo(group, budget) ==
    /\ Finish(Cmd("Info", group, "", <<>>), show_group_info(App, group), budget)
    /\ UNCHANGED <<procs, replaced>>

Next ==
    \/ \E user \in UserName : RunInit(user, MaxUuid)
    \/ \E name \in GroupNames : RunCreateGroup(name, MaxUuid)
    \/ \E group \in GroupNames, member \in UserName : RunAddMember(group, member, MaxUuid)
    \/ \E group \in GroupNames, content \in Contents : RunSend(group, content, MaxUuid)
    \/ \E group \in GroupNames : RunList(group, MaxUuid)
    \/ \E group \in GroupNames : RunInfo(group, MaxUuid)

Spec == Init /\ [][Next]_vars

\* The same program, run for longer.
NextLong ==
    \/ \E user \in UserName : RunInit(user, MaxUuidLong)
    \/ \E name \in GroupNames : RunCreateGroup(name, MaxUuidLong)
    \/ \E group \in GroupNames, member \in UserName : RunAddMember(group, member, MaxUuidLong)
    \/ \E group \in GroupNames, content \in Contents : RunSend(group, content, MaxUuidLong)
    \/ \E group \in GroupNames : RunList(group, MaxUuidLong)
    \/ \E group \in GroupNames : RunInfo(group, MaxUuidLong)

SpecLong == Init /\ [][NextLong]_vars

\* The same program, sent the texts of CodecContents.
NextCodec ==
    \/ \E user \in UserName : RunInit(user, MaxUuid)
    \/ \E name \in GroupNames : RunCreateGroup(name, MaxUuid)
    \/ \E group \in GroupNames, member \in UserName : RunAddMember(group, member, MaxUuid)
    \/ \E group \in GroupNames, content \in CodecContents : RunSend(group, content, MaxUuid)
    \/ \E group \in GroupNames : RunList(group, MaxUuid)
    \/ \E group \in GroupNames : RunInfo(group, MaxUuid)

SpecCodec == Init /\ [][NextCodec]_vars

\* ------------------------------------------------- two processes, one store
\* main, lines 361-366: new() and load_state().  The process now holds what
\* the files held at this moment.
Load(p) ==
    /\ procs[p].pc = "start"
    /\ procs' = [procs EXCEPT ![p] = Loaded(load_state(new, files))]
    /\ UNCHANGED <<files, uuids, last, adds, created_ids, observed, creator,
                   memory, scenA, scenB, replaced>>

\* main, lines 368-388: the handler runs on what the process loaded, saves
\* on success, and the process returns.
Exit(p, out) ==
    /\ procs' = [procs EXCEPT ![p] = Started]
    /\ replaced' = IF out.saved THEN App ELSE replaced

ExecInit(p, user) ==
    LET out == init_user(procs[p].app, user, uuids + 1) IN
    /\ procs[p].pc = "loaded"
    /\ Finish(Cmd("Init", "", user, <<>>), out, MaxUuidRace)
    /\ Exit(p, out)

ExecCreateGroup(p, name) ==
    LET out == create_group(procs[p].app, name, uuids + 1) IN
    /\ procs[p].pc = "loaded"
    /\ Finish(Cmd("CreateGroup", name, "", <<>>), out, MaxUuidRace)
    /\ Exit(p, out)

ExecAddMember(p, group, member) ==
    LET out == add_member(procs[p].app, group, member, uuids + 1) IN
    /\ procs[p].pc = "loaded"
    /\ Finish(Cmd("AddMember", group, member, <<>>), out, MaxUuidRace)
    /\ Exit(p, out)

ExecSend(p, group, content) ==
    LET out == send_message(procs[p].app, group, content, uuids + 1) IN
    /\ procs[p].pc = "loaded"
    /\ group \in DOMAIN procs[p].app.groups
           => Len(procs[p].app.groups[group].messages) < MaxMsgs
    /\ Finish(Cmd("Send", group, "", content), out, MaxUuidRace)
    /\ Exit(p, out)

ExecList(p, group) ==
    LET out == list_messages(procs[p].app, group) IN
    /\ procs[p].pc = "loaded"
    /\ Finish(Cmd("List", group, "", <<>>), out, MaxUuidRace)
    /\ Exit(p, out)

ExecInfo(p, group) ==
    LET out == show_group_info(procs[p].app, group) IN
    /\ procs[p].pc = "loaded"
    /\ Finish(Cmd("Info", group, "", <<>>), out, MaxUuidRace)
    /\ Exit(p, out)

NextRace ==
    \/ \E p \in Procs : Load(p)
    \/ \E p \in Procs, user \in UserName : ExecInit(p, user)
    \/ \E p \in Procs, name \in GroupNames : ExecCreateGroup(p, name)
    \/ \E p \in Procs, group \in GroupNames, member \in UserName : ExecAddMember(p, group, member)
    \/ \E p \in Procs, group \in GroupNames, content \in Contents : ExecSend(p, group, content)
    \/ \E p \in Procs, group \in GroupNames : ExecList(p, group)
    \/ \E p \in Procs, group \in GroupNames : ExecInfo(p, group)

SpecRace == Init /\ [][NextRace]_vars

\* ------------------------------------------------------ shared vocabulary
\* The step just taken ran command cmd (read in the state it leaves).
Ran(cmd) == last.cmd = cmd
Succeeded == last.result.ok
\* A call that did its work, as opposed to the already-a-member notice.
Added == Ran("AddMember") /\ last.result.ok /\ last.result.notice = ""
FailedWith(msg) == ~last.result.ok /\ last.result.err = msg
Epoch(app, g) == app.groups[g].mls_group.epoch
Members(app, g) == {app.groups[g].members[i] : i \in 1..Len(app.groups[g].members)}

\* ------------------------------------------------------------------- C1
C1_Counted ==
    \A g \in DOMAIN App.groups : Epoch(App, g) = 1 + adds[g]

C1_Step ==
    \A g \in DOMAIN App.groups :
        (g \in DOMAIN App'.groups /\ App'.groups[g].group_id = App.groups[g].group_id)
        => Epoch(App', g) = IF Added' /\ last'.group = g
                            THEN Epoch(App, g) + 1
                            ELSE Epoch(App, g)

\* C1: a group's epoch is 1 plus the number of AddMember calls that added a
\* member to it since it was created; each such call raises the epoch by
\* exactly 1 and no other call on the group changes it.
C1_EpochIsOnePlusAdds == [] C1_Counted /\ [][C1_Step]_vars

C1_Witness ==
    /\ Added
    /\ last.group \in DOMAIN App.groups
    /\ adds[last.group] = 1
    /\ Epoch(App, last.group) = 2


\* ------------------------------------------------------------------- C2
C2_Step ==
    \A g \in DOMAIN App.groups :
        /\ g \in DOMAIN App'.groups
        /\ Epoch(App', g) >= Epoch(App, g)
        /\ Epoch(App', g) # Epoch(App, g)
           => \A o \in observed : o.name = g => o.epoch # Epoch(App', g)

\* C2: the epoch stored under a group name never decreases from one state
\* to the next, and when it changes it never takes a value the name has
\* held before, also when CreateGroup runs again with a name that already
\* exists.
C2_EpochNeverDecreasesNorReused == [][C2_Step]_vars

\* ------------------------------------------------------------------- C3
C3_Step ==
    (/\ Ran("AddMember")'
     /\ last'.group \in DOMAIN App.groups
     /\ Contains(App.groups[last'.group].members, to_string(last'.user)))
    => /\ Succeeded'
       /\ last'.result.notice = AlreadyInGroup
       /\ files' = files
       /\ uuids' = uuids

\* C3: AddMember(g, x) with x already in g.members returns success with a
\* notice and leaves every group (epoch, secret, tree_hash, members,
\* messages), the keys and the active identity unchanged.
C3_AddExistingMemberIsNoOp == [][C3_Step]_vars

C3_Witness ==
    /\ Ran("AddMember")
    /\ last.result.notice = AlreadyInGroup
    /\ last.group \in DOMAIN App.groups
    /\ Contains(App.groups[last.group].members, to_string(last.user))

\* ------------------------------------------------------------------- C4
C4_Step ==
    (/\ Ran("Send")'
     /\ App.current_user # None
     /\ last'.group \in DOMAIN App.groups
     /\ ~Contains(App.groups[last'.group].members, to_string(App.current_user[1])))
    => /\ FailedWith(NotAMember)'
       /\ files' = files

\* C4: Send by an active identity that is not in the target group's members
\* fails with the not-a-member error, whatever the content, appends no
\* message and leaves the stored state unchanged.
C4_NonMemberCannotSend == [][C4_Step]_vars

C4_Witness ==
    /\ Ran("Send")
    /\ FailedWith(NotAMember)
    /\ last.group \in DOMAIN App.groups
    /\ ~Contains(App.groups[last.group].members, to_string(App.current_user[1]))


\* ------------------------------------------------------------------- C5
Team == App.groups["team"]
TeamLine == [sender |-> "Alice", epoch |-> 2, content |-> Hi,
             encrypted |-> Team.messages[1].encrypted_content]

CreatedByAlice ==
    /\ Succeeded
    /\ "team" \in DOMAIN App.groups
    /\ Epoch(App, "team") = 1
    /\ Members(App, "team") = {"Alice"}

BobAdded ==
    /\ Succeeded
    /\ Epoch(App, "team") = 2
    /\ Members(App, "team") = {"Alice", "Bob"}

HiSent ==
    /\ Succeeded
    /\ Len(Team.messages) = 1
    /\ Team.messages[1].sender = "Alice"
    /\ Team.messages[1].epoch = 2
    /\ Team.messages[1].content = Hi

HiListed ==
    /\ Succeeded
    /\ last.listed = <<TeamLine>>

\* C5 as stated: from the empty store, Init(Alice); CreateGroup("team");
\* AddMember("team", Bob); Send("team", "hi"); List("team") succeeds at every
\* step, with epoch 1 and members {Alice} after CreateGroup, epoch 2 and
\* members {Alice, Bob} after AddMember, a message by Alice at epoch 2 after
\* Send, and exactly that message listed.
C5_ScenarioA ==
    /\ scenA = 1 => Succeeded
    /\ scenA = 2 => CreatedByAlice
    /\ scenA = 3 => BobAdded
    /\ scenA = 4 => HiSent
    /\ scenA = 5 => HiListed

\* C5 amended: in that sequence AddMember("team", Bob) fails because Bob has
\* no identity and leaves the group at epoch 1 with members {Alice}; with
\* Init(Bob) run first, the sequence succeeds at every step with the states
\* the scenario gives.
C5_ScenarioWithBobInitialised ==
    /\ scenA = 1 => Succeeded
    /\ scenA = 2 => CreatedByAlice
    /\ scenA = 3 => /\ FailedWith(MemberNotInitialized)
                    /\ Epoch(App, "team") = 1
                    /\ Members(App, "team") = {"Alice"}
    /\ scenB \in {1, 2} => Succeeded
    /\ scenB = 3 => CreatedByAlice
    /\ scenB = 4 => BobAdded
    /\ scenB = 5 => HiSent
    /\ scenB = 6 => HiListed

C5_Witness == scenB = 6 /\ HiListed

\* ------------------------------------------------------------------- C6
C6_Step ==
    (/\ App.current_user = None
     /\ last'.cmd \in {"CreateGroup", "AddMember", "Send"})
    => /\ FailedWith(NoUserInitialized)'
       /\ files' = files

\* C6: with no active identity, CreateGroup, AddMember and Send each fail
\* with the no-user-initialized error, whatever their arguments (also for a
\* group that does not exist), and leave groups, keys and the active
\* identity unchanged.
C6_NoIdentityNoCommand == [][C6_Step]_vars

C6_Witness ==
    /\ App.current_user = None
    /\ Ran("AddMember")
    /\ last.group \notin DOMAIN App.groups
    /\ FailedWith(NoUserInitialized)


\* ------------------------------------------------------------------- C7
C7_Step ==
    (Ran("CreateGroup")' /\ Succeeded')
    => LET g == App'.groups[last'.group] IN
       /\ App.current_user # None
       /\ g.group_id \notin created_ids
       /\ g.mls_group.epoch = 1
       /\ g.members = <<to_string(App.current_user[1])>>
       /\ g.messages = <<>>
       /\ \A o \in observed : /\ o.secret # g.mls_group.group_secret
                              /\ o.tree_hash # g.mls_group.tree_hash

\* C7: a successful CreateGroup(name) by active identity c stores under name
\* a group whose group_id no group ever had before, with epoch 1, members
\* {c}, no messages, and a secret and a tree_hash no group ever had before.
C7_CreateGroupMakesFreshGroup == [][C7_Step]_vars

C7_Witness ==
    /\ Ran("CreateGroup")
    /\ Succeeded
    /\ Cardinality(created_ids) = 2
    /\ Epoch(App, last.group) = 1
    /\ App.groups[last.group].messages = <<>>

\* ------------------------------------------------------------------- C8
AddMemberLeavesGroups == files' = files

C8_MissingTarget ==
    (/\ Ran("AddMember")'
     /\ last'.group \in DOMAIN App.groups
     /\ ~Contains(App.groups[last'.group].members, to_string(last'.user))
     /\ to_string(last'.user) \notin DOMAIN App.user_keys)
    => FailedWith(MemberNotInitialized)' /\ AddMemberLeavesGroups

C8_StepAsStated ==
    /\ (Ran("AddMember")' /\ last'.group \notin DOMAIN App.groups)
       => FailedWith(GroupNotFound)' /\ AddMemberLeavesGroups
    /\ C8_MissingTarget

C8_StepAmended ==
    /\ (Ran("AddMember")' /\ last'.group \notin DOMAIN App.groups)
       => /\ FailedWith(IF App.current_user = None
                        THEN NoUserInitialized ELSE GroupNotFound)'
          /\ AddMemberLeavesGroups
    /\ C8_MissingTarget

\* C8 as stated: AddMember fails with the group-not-found error when the
\* named group does not exist, and with the member-not-initialized error
\* when the target has no identity and is not yet a member; in both cases
\* every group is left unchanged.
C8_AddMemberFailures == [][C8_StepAsStated]_vars

\* C8 amended: the group-not-found error is returned when an active identity
\* is set; with none, AddMember on a missing group fails with the
\* no-user-initialized error.  The rest is as stated.
C8_AddMemberFailuresWithIdentity == [][C8_StepAmended]_vars

C8_Witness ==
    /\ Ran("AddMember")
    /\ App.current_user # None
    /\ last.group \notin DOMAIN App.groups
    /\ FailedWith(GroupNotFound)
    /\ DOMAIN App.groups # {}

\* ------------------------------------------------------------------- C9
C9_Distinct ==
    \A a, b \in observed :
        (a.group_id = b.group_id /\ a.epoch # b.epoch) => a.secret # b.secret

C9_Step ==
    \A g \in DOMAIN App.groups :
        (/\ g \in DOMAIN App'.groups
         /\ App'.groups[g].group_id = App.groups[g].group_id
         /\ Epoch(App', g) # Epoch(App, g))
        => App'.groups[g].mls_group.group_secret # App.groups[g].mls_group.group_secret

\* C9: a step that changes a group's epoch replaces its secret in the same
\* step, and no two states of one group observed at different epochs have
\* the same secret.
C9_SecretRotatesWithEpoch == [] C9_Distinct /\ [][C9_Step]_vars

C9_Witness ==
    /\ Added
    /\ \E a, b \in observed :
           a.group_id = b.group_id /\ a.epoch = 1 /\ b.epoch = 2 /\ a.secret # b.secret

\* ------------------------------------------------------------------ C10
C10_Step ==
    (last'.cmd \in {"AddMember", "Send", "Init", "List", "Info"})
    => \A g \in DOMAIN App.groups :
           LET old == App.groups[g].messages
               now == App'.groups[g].messages IN
           /\ g \in DOMAIN App'.groups
           /\ Len(now) >= Len(old)
           /\ \A i \in 1..Len(old) : now[i].epoch = old[i].epoch
           /\ \A i \in (Len(old) + 1)..Len(now) :
                  Ran("Send")' /\ now[i].epoch = Epoch(App, g)

\* C10: a message Send appends carries the epoch its group has at that
\* instant, and no later AddMember, Send, Init, List or Info changes the
\* epoch of a stored message.
C10_MessageEpochIsFixed == [][C10_Step]_vars

C10_Witness ==
    /\ Added
    /\ \E g \in DOMAIN App.groups :
           /\ Epoch(App, g) = 2
           /\ Len(App.groups[g].messages) = 1
           /\ App.groups[g].messages[1].epoch = 1


\* ------------------------------------------------------------------ C11
\* C11: the sender of every stored message was a member of the message's
\* group when the group was at the message's epoch; no run, also after Init
\* has switched the active identity, stores a message by a non-member.
C11_SenderWasMember ==
    \A g \in DOMAIN App.groups :
        \A i \in 1..Len(App.groups[g].messages) :
            LET m == App.groups[g].messages[i] IN
            \E o \in observed :
                /\ o.group_id = m.group_id
                /\ o.epoch = m.epoch
                /\ Contains(o.members, m.sender)

C11_Witness ==
    /\ Ran("Send")
    /\ FailedWith(NotAMember)
    /\ \E i \in 1..Len(App.groups[last.group].messages) :
           App.groups[last.group].messages[i].sender # to_string(App.current_user[1])

\* ------------------------------------------------------------------ C12
\* C12: every stored group has at least one member, and the identity that
\* was active when it was created is one of them.
C12_CreatorIsMember ==
    \A g \in DOMAIN App.groups :
        /\ Len(App.groups[g].members) >= 1
        /\ creator[g] # None
        /\ Contains(App.groups[g].members, to_string(creator[g][1]))

C12_Witness ==
    /\ Added
    /\ Len(App.groups[last.group].members) = 2
    /\ App.groups[last.group].members[1] = to_string(creator[last.group][1])
    /\ creator[last.group] # App.current_user


\* ------------------------------------------------------------------ C14
C14_Step ==
    (last'.cmd \in {"List", "Info"})
    => /\ files' = files
       /\ uuids' = uuids
       /\ IF last'.group \in DOMAIN App.groups
          THEN /\ Succeeded'
               /\ Ran("List")'
                  => LET sent == App.groups[last'.group].messages IN
                     /\ Len(last'.listed) = Len(sent)
                     /\ \A i \in 1..Len(sent) :
                            /\ last'.listed[i].sender = sent[i].sender
                            /\ last'.listed[i].epoch = sent[i].epoch
                            /\ last'.listed[i].content = sent[i].content
                     /\ \A i, j \in 1..Len(sent) :
                            i < j => sent[i].id.uuid < sent[j].id.uuid
          ELSE FailedWith(GroupNotFound)'

\* C14: List and Info change no file (groups, keys, active identity); List
\* shows the group's messages, earlier sent first; on an unknown group both
\* fail with the group-not-found error and change nothing.
C14_ListAndInfoArePure == [][C14_Step]_vars

C14_Witness ==
    /\ Ran("List")
    /\ Succeeded
    /\ Len(last.listed) = 2
    /\ last.listed[1].content # last.listed[2].content

\* ------------------------------------------------------------------ C17
C17_Step ==
    \A g \in DOMAIN App.groups :
        LET old == App.groups[g].messages IN
        /\ g \in DOMAIN App'.groups
        /\ Len(App'.groups[g].messages) \in {Len(old), Len(old) + 1}
        /\ SubSeq(App'.groups[g].messages, 1, Len(old)) = old

\* C17: a group, once stored under a name, stays stored, and the message
\* sequence under that name only grows at its end, by one message per Send:
\* every later sequence has every earlier one as a prefix.
C17_MessagesAppendOnly == [][C17_Step]_vars

\* ------------------------------------------------------------------ C18
NoPartShared(key, other) ==
    /\ key.id # other.id
    /\ key.public_key # other.public_key
    /\ key.private_key # other.private_key

C18_Step ==
    Ran("Init")'
    => LET h == to_string(last'.user) IN
       /\ Succeeded'
       /\ App'.current_user = Some(last'.user)
       /\ DOMAIN App'.user_keys = DOMAIN App.user_keys \cup {h}
       /\ \A k \in DOMAIN App.user_keys :
              /\ NoPartShared(App'.user_keys[h], App.user_keys[k])
              /\ k # h => App'.user_keys[k] = App.user_keys[k]
       /\ App'.groups = App.groups

\* C18: Init(h) succeeds, makes h the active identity, stores newly
\* generated keys for h in place of any h had, and leaves every group and
\* every other handle's keys as they were.
C18_InitReplacesOnlyOwnKeys == [][C18_Step]_vars

C18_Witness ==
    /\ Ran("Init")
    /\ last.user = Alice
    /\ "Bob" \in DOMAIN App.user_keys
    /\ \E g \in DOMAIN App.groups :
           /\ creator[g] = Some(Alice)
           /\ App.user_keys["Alice"].id.uuid > App.groups[g].group_id.uuid

\* ------------------------------------------------------------------ C19
\* C19: in every group the member list holds no handle twice and the epoch
\* equals the number of members, so it is 1 or 2.
C19_EpochIsMemberCount ==
    \A g \in DOMAIN App.groups :
        LET members == App.groups[g].members IN
        /\ \A i, j \in 1..Len(members) : members[i] = members[j] => i = j
        /\ Epoch(App, g) = Len(members)
        /\ Epoch(App, g) \in {1, 2}

C19_Witness ==
    /\ Added
    /\ Epoch(App, last.group) = 2
    /\ Members(App, last.group) = {"Alice", "Bob"}

\* ------------------------------------------------------------------ C20
\* C20: in every group, members equals mls_group.members (same handles, same
\* order), and group_id equals mls_group.group_id and the group_id of every
\* message of the group.
C20_CopiesAgree ==
    \A g \in DOMAIN App.groups :
        LET group == App.groups[g] IN
        /\ group.members = group.mls_group.members
        /\ group.group_id = group.mls_group.group_id
        /\ \A i \in 1..Len(group.messages) : group.messages[i].group_id = group.group_id

C20_Witness ==
    /\ Ran("Send")
    /\ Succeeded
    /\ Len(App.groups[last.group].mls_group.members) = 2
    /\ App.groups[last.group].messages[1].group_id = App.groups[last.group].group_id


\* ------------------------------------------------------------------ C13
\* C13: the ciphertext Send stores for a plaintext under the group's secret
\* determines the plaintext: two messages of one group sent at the same
\* epoch, so under the same secret, with equal ciphertexts have equal
\* plaintexts.
C13_CiphertextDeterminesPlaintext ==
    \A g \in DOMAIN App.groups :
        LET sent == App.groups[g].messages IN
        \A i, j \in 1..Len(sent) :
            (/\ sent[i].epoch = sent[j].epoch
             /\ sent[i].encrypted_content = sent[j].encrypted_content)
            => sent[i].content = sent[j].content


\* ------------------------------------------------------------------ C15
\* C15: what a new process loads from the files is what the last run held
\* when it ended (the same groups with their epochs, secrets, members and
\* messages, the same keys, the same active identity); a file that does not
\* exist loads as the empty value and the run goes on.
C15_SaveThenLoad ==
    /\ App = memory
    /\ files.app_state = <<>> => App.groups = EmptyMap
    /\ files.user_keys = <<>> => App.user_keys = EmptyMap
    /\ files.current_user = <<>> => App.current_user = None

C15_Witness ==
    /\ Ran("Send")
    /\ Succeeded
    /\ App = memory
    /\ DOMAIN App.user_keys = {"Alice", "Bob"}
    /\ Len(App.groups[last.group].members) = 2
    /\ Len(App.groups[last.group].messages) = 1


\* ------------------------------------------------------------------ C16
GroupAt(app, g) == IF g \in DOMAIN app.groups THEN <<app.groups[g]>> ELSE <<>>
KeyAt(app, handle) == IF handle \in DOMAIN app.user_keys THEN <<app.user_keys[handle]>> ELSE <<>>
\* Process p returns in this step, having written the files.
Saves(p) == procs[p].pc = "loaded" /\ procs'[p].pc = "start" /\ files' # files

\* What the files hold after p's save is p's own state and nothing else:
\* every group and key its command did not touch is as p loaded it (absent
\* if p loaded none), whatever the files held just before; in the group it
\* touched, every message is one p loaded or one made in this step, and
\* every member is one p loaded, the one it added, or p's identity.
C16_Step ==
    \A p \in Procs :
        Saves(p) =>
            LET mine == procs[p].app IN
            /\ last'.result.ok
            /\ App' = memory'
            /\ \A g \in GroupNames :
                  g # last'.group => GroupAt(App', g) = GroupAt(mine, g)
            /\ \A user \in UserName :
                  ~(last'.cmd = "Init" /\ last'.user = user)
                  => KeyAt(App', to_string(user)) = KeyAt(mine, to_string(user))
            /\ last'.cmd # "Init" => App'.current_user = mine.current_user
            /\ \A g \in DOMAIN App'.groups :
                  g = last'.group =>
                      LET now == App'.groups[g] IN
                      /\ \A i \in 1..Len(now.messages) :
                            \/ /\ g \in DOMAIN mine.groups
                               /\ i <= Len(mine.groups[g].messages)
                               /\ now.messages[i] = mine.groups[g].messages[i]
                            \/ now.messages[i].id.uuid > uuids
                      /\ \A i \in 1..Len(now.members) :
                            \/ /\ g \in DOMAIN mine.groups
                               /\ Contains(mine.groups[g].members, now.members[i])
                            \/ /\ last'.cmd = "AddMember"
                               /\ now.members[i] = to_string(last'.user)
                            \/ /\ last'.cmd = "CreateGroup"
                               /\ now.members[i] = to_string(mine.current_user[1])

\* C16: when two processes have both loaded and then save one after the
\* other, the second save writes the second process's state over the
\* first's: the files hold the last writer's state with nothing of the
\* other's update merged in, and each process reports success.
C16_LastWriterWins == [][C16_Step]_vars

\* Both processes sent to the group they had loaded without messages; the
\* first one's saved message has been replaced by the second one's.
C16_Witness ==
    /\ Ran("Send")
    /\ Succeeded
    /\ App = memory
    /\ last.group \in DOMAIN replaced.groups
    /\ Len(replaced.groups[last.group].messages) = 1
    /\ Len(App.groups[last.group].messages) = 1
    /\ replaced.groups[last.group].messages[1] # App.groups[last.group].messages[1]

====
